---- MODULE Spec2Model ----
(***************************************************************************)
(* Model of asyncua's two bootstrap passes:                                *)
(*   - the address-space bulk load (PostponeReferences / fill_address_space*)
(*     in server/standard_address_space/standard_address_space.py), and    *)
(*   - the dynamic type bootstrap (load_enums / load_data_type_definitions *)
(*     in common/structures104.py).                                        *)
(***************************************************************************)
EXTENDS Integers, Sequences, FiniteSets, TLC

VARIABLES
    \* ---- bulk load -----------------------------------------------------
    aspace,            \* node ids present in the server's address space
    refs_in,           \* references present in the server's address space
    postponed_nodes,   \* PostponeReferences.postponed_nodes
    postponed_refs,    \* PostponeReferences.postponed_refs
    remaining_nodes,   \* __aexit__'s local remaining_nodes
    remaining_refs,    \* __aexit__'s local remaining_refs
    lphase,            \* "new" | "body" | "done" | "failed" | "aborted"
    report,            \* what the raised RuntimeError names
    submitted_nodes,   \* history: node items handed to add_nodes so far
    submitted_refs,    \* history: references handed to add_references so far
    early_refs,        \* history: references handed in before their target node
    attempts_n,        \* history: insertion attempts per node id
    attempts_r,        \* history: insertion attempts per reference
    \* ---- type bootstrap ------------------------------------------------
    type_nodes,        \* the address space walked: enum and structure type nodes
    ua,                \* the ua module: registered classes and its lookup tables
    dtypes,            \* load_data_type_definitions' list of DataTypeSorter
    idx,               \* position of the compile loop in dtypes
    tpc,               \* "idle" | "start" | "enums" | "parsed" | "compile" | "done" | "raised"
    run,               \* "first" | "second" bootstrap over the same address space
    first_run,         \* history: ua and outcome at the end of the first run
    reg_log            \* history: the calls to ua.register_*, in order

loadvars == <<aspace, refs_in, postponed_nodes, postponed_refs, remaining_nodes,
              remaining_refs, lphase, report, submitted_nodes, submitted_refs,
              early_refs, attempts_n, attempts_r>>

typevars == <<type_nodes, ua, dtypes, idx, tpc, run, first_run, reg_log>>

vars == <<loadvars, typevars>>

-----------------------------------------------------------------------------
(* Bounds of the bulk-load model *)

MaxNodeId == 2
MaxRefs == 2

NodeIds == 1 .. MaxNodeId
\* a node item to add: its requested id and its parent (0: the null parent id);
\* no node is its own parent
NodeItems == {n \in [id : NodeIds, parent : 0 .. MaxNodeId] : n.parent # n.id}
RefItems == [src : NodeIds, tgt : NodeIds]

SeqToSet(s) == {s[i] : i \in DOMAIN s}


-----------------------------------------------------------------------------
(* The server's insertion primitives.  try_add_nodes / try_add_references  *)
(* walk the batch in order and yield every item that could not be added:   *)
(* a node whose parent is not present, a reference whose source or target  *)
(* node is not present.                                                    *)

NodeInsertable(space, item) == item.parent = 0 \/ item.parent \in space

RefInsertable(space, ref) == ref.src \in space /\ ref.tgt \in space

RECURSIVE try_add_nodes(_, _)
try_add_nodes(space, items) ==
    IF items = <<>> THEN [space |-> space, failed |-> <<>>]
    ELSE LET item == Head(items)
             ok == NodeInsertable(space, item)
             rest == try_add_nodes(IF ok THEN space \cup {item.id} ELSE space,
                                   Tail(items))
         IN  [space |-> rest.space,
              failed |-> IF ok THEN rest.failed ELSE <<item>> \o rest.failed]

RECURSIVE try_add_references(_, _, _)
try_add_references(space, present, refs) ==
    IF refs = <<>> THEN [refs |-> present, failed |-> <<>>]
    ELSE LET ref == Head(refs)
             ok == RefInsertable(space, ref)
             rest == try_add_references(space,
                                        IF ok THEN present \cup {ref} ELSE present,
                                        Tail(refs))
         IN  [refs |-> rest.refs,
              failed |-> IF ok THEN rest.failed ELSE <<ref>> \o rest.failed]

\* history: one more attempt for every entry of the batch
Attempted(att, keys) == [k \in DOMAIN att |-> IF k \in keys THEN att[k] + 1 ELSE att[k]]

-----------------------------------------------------------------------------
(* PostponeReferences *)

NoReport == [kind |-> "none", nodes |-> <<>>, refs |-> <<>>]

\* the type bootstrap's variables while the bulk load runs
TypesIdle ==
    /\ type_nodes = [enums |-> <<>>, children |-> <<>>, definition |-> <<>>]
    /\ ua = [classes |-> <<>>, extension_objects_by_datatype |-> <<>>,
             extension_object_classes |-> <<>>, enums_by_datatype |-> <<>>]
    /\ dtypes = <<>>
    /\ idx = 0
    /\ tpc = "idle"
    /\ run = "first"
    /\ first_run = <<>>
    /\ reg_log = <<>>

\* the bulk load's variables before fill_address_space starts
LoadNew ==
    /\ aspace = {}
    /\ refs_in = {}
    /\ postponed_nodes = <<>>
    /\ postponed_refs = <<>>
    /\ remaining_nodes = <<>>
    /\ remaining_refs = <<>>
    /\ lphase = "new"
    /\ report = NoReport
    /\ submitted_nodes = {}
    /\ submitted_refs = {}
    /\ early_refs = {}
    /\ attempts_n = [i \in NodeIds |-> 0]
    /\ attempts_r = [r \in RefItems |-> 0]

InitLoad == TypesIdle /\ LoadNew

\* __aenter__: fresh pending lists
AEnter ==
    /\ lphase = "new"
    /\ postponed_refs' = <<>>
    /\ postponed_nodes' = <<>>
    /\ lphase' = "body"
    /\ UNCHANGED <<aspace, refs_in, remaining_nodes, remaining_refs, report,
                   submitted_nodes, submitted_refs, early_refs, attempts_n, attempts_r>>
    /\ UNCHANGED typevars

\* add_nodes as it would be if the loop over the failed nodes ended at the
\* first one
AddNodes_FirstFailureOnly(nodes) ==
    /\ lphase = "body"
    /\ \A i \in DOMAIN nodes :
          /\ nodes[i].id \notin {n.id : n \in submitted_nodes}
          /\ \A j \in DOMAIN nodes : i # j => nodes[i].id # nodes[j].id
    /\ LET r == try_add_nodes(aspace, nodes)
       IN  /\ aspace' = r.space
           /\ postponed_nodes' = postponed_nodes \o
                                  (IF r.failed = <<>> THEN <<>> ELSE <<Head(r.failed)>>)
    /\ submitted_nodes' = submitted_nodes \cup SeqToSet(nodes)
    /\ attempts_n' = Attempted(attempts_n, {nodes[i].id : i \in DOMAIN nodes})
    /\ UNCHANGED <<refs_in, postponed_refs, remaining_nodes, remaining_refs, lphase,
                   report, submitted_refs, early_refs, attempts_r>>
    /\ UNCHANGED typevars

\* add_nodes(nodes), called by a create_standard_address_space_PartN step
AddNodes(nodes) ==
    /\ lphase = "body"
    /\ \A i \in DOMAIN nodes :
          /\ nodes[i].id \notin {n.id : n \in submitted_nodes}
          /\ \A j \in DOMAIN nodes : i # j => nodes[i].id # nodes[j].id
    /\ LET r == try_add_nodes(aspace, nodes)
       IN  /\ aspace' = r.space
           /\ postponed_nodes' = postponed_nodes \o r.failed
    /\ submitted_nodes' = submitted_nodes \cup SeqToSet(nodes)
    /\ attempts_n' = Attempted(attempts_n, {nodes[i].id : i \in DOMAIN nodes})
    /\ UNCHANGED <<refs_in, postponed_refs, remaining_nodes, remaining_refs, lphase,
                   report, submitted_refs, early_refs, attempts_r>>
    /\ UNCHANGED typevars

\* add_references(refs), called by a create_standard_address_space_PartN step
AddReferences(refs) ==
    /\ lphase = "body"
    /\ Cardinality(submitted_refs) + Len(refs) <= MaxRefs
    /\ \A i \in DOMAIN refs :
          /\ refs[i] \notin submitted_refs
          /\ \A j \in DOMAIN refs : i # j => refs[i] # refs[j]
    /\ LET r == try_add_references(aspace, refs_in, refs)
       IN  /\ refs_in' = r.refs
           /\ postponed_refs' = postponed_refs \o r.failed
    /\ submitted_refs' = submitted_refs \cup SeqToSet(refs)
    /\ early_refs' = early_refs \cup
          {ref \in SeqToSet(refs) : ref.tgt \notin {n.id : n \in submitted_nodes}}
    /\ attempts_r' = Attempted(attempts_r, SeqToSet(refs))
    /\ UNCHANGED <<aspace, postponed_nodes, remaining_nodes, remaining_refs, lphase,
                   report, submitted_nodes, attempts_n>>
    /\ UNCHANGED typevars

\* __aexit__ with an exception as it would be if the test on exc_type were
\* missing: the pending nodes and references are retried
BodyRaises_Retrying ==
    /\ lphase = "body"
    /\ LET rn == try_add_nodes(aspace, postponed_nodes)
           rr == try_add_references(rn.space, refs_in, postponed_refs)
       IN  /\ aspace' = rn.space
           /\ remaining_nodes' = rn.failed
           /\ refs_in' = rr.refs
           /\ remaining_refs' = rr.failed
           /\ attempts_n' = Attempted(attempts_n,
                                      {postponed_nodes[i].id : i \in DOMAIN postponed_nodes})
           /\ attempts_r' = Attempted(attempts_r, SeqToSet(postponed_refs))
    /\ lphase' = "aborted"
    /\ report' = [kind |-> "body", nodes |-> <<>>, refs |-> <<>>]
    /\ UNCHANGED <<postponed_nodes, postponed_refs, submitted_nodes, submitted_refs,
                   early_refs>>
    /\ UNCHANGED typevars

\* a create_standard_address_space_PartN step raises: __aexit__ gets the
\* exception, does nothing and lets it propagate
BodyRaises ==
    /\ lphase = "body"
    /\ lphase' = "aborted"
    /\ report' = [kind |-> "body", nodes |-> <<>>, refs |-> <<>>]
    /\ UNCHANGED <<aspace, refs_in, postponed_nodes, postponed_refs, remaining_nodes,
                   remaining_refs, submitted_nodes, submitted_refs, early_refs,
                   attempts_n, attempts_r>>
    /\ UNCHANGED typevars

\* the first check as it would be if it did not stop the retry
RetryRefs_Always(rem_nodes) == TRUE

\* __aexit__'s first check: are the pending references retried at all
RetryRefs(rem_nodes) == Len(rem_nodes) = 0

\* ExitReport as it would be if the second check (remaining references) were lost
ExitReport_NodesOnly(rem_nodes, rem_refs) ==
    IF Len(rem_nodes) # 0
    THEN [kind |-> "remaining nodes", nodes |-> rem_nodes, refs |-> <<>>]
    ELSE [kind |-> "none", nodes |-> <<>>, refs |-> <<>>]

\* __aexit__'s outcome, from the two lists of still failing entries
ExitReport(rem_nodes, rem_refs) ==
    IF Len(rem_nodes) # 0
    THEN [kind |-> "remaining nodes", nodes |-> rem_nodes, refs |-> <<>>]
    ELSE IF Len(rem_refs) # 0
    THEN [kind |-> "remaining refs", nodes |-> <<>>, refs |-> rem_refs]
    ELSE NoReport

\* __aexit__ without an exception from the body
AExit ==
    /\ lphase = "body"
    /\ LET rn == try_add_nodes(aspace, postponed_nodes)
           retry == RetryRefs(rn.failed)
           rr == IF retry THEN try_add_references(rn.space, refs_in, postponed_refs)
                 ELSE [refs |-> refs_in, failed |-> <<>>]
           rep == ExitReport(rn.failed, rr.failed)
       IN  /\ aspace' = rn.space
           /\ remaining_nodes' = rn.failed
           /\ refs_in' = rr.refs
           /\ remaining_refs' = rr.failed
           /\ report' = rep
           /\ lphase' = IF rep.kind = "none" THEN "done" ELSE "failed"
           /\ attempts_n' = Attempted(attempts_n,
                                      {postponed_nodes[i].id : i \in DOMAIN postponed_nodes})
           /\ attempts_r' = IF retry THEN Attempted(attempts_r, SeqToSet(postponed_refs))
                            ELSE attempts_r
    /\ UNCHANGED <<postponed_nodes, postponed_refs, submitted_nodes, submitted_refs,
                   early_refs>>
    /\ UNCHANGED typevars

\* fill_address_space: the body hands batches of one or more entries
NextLoad ==
    \/ AEnter
    \/ \E n1 \in NodeItems : AddNodes(<<n1>>)
    \/ \E n1, n2 \in NodeItems : AddNodes(<<n1, n2>>)
    \/ \E r1 \in RefItems : AddReferences(<<r1>>)
    \/ \E r1, r2 \in RefItems : AddReferences(<<r1, r2>>)
    \/ BodyRaises
    \/ AExit

LoadSpec == InitLoad /\ [][NextLoad]_vars

-----------------------------------------------------------------------------
(* Claims about the bulk load *)

LoadEnded == lphase \in {"done", "failed"}
UnresolvedNodes == {n \in submitted_nodes : n.id \notin aspace}
UnresolvedRefs == submitted_refs \ refs_in
SuppliedIds == {n.id : n \in submitted_nodes}

\* C3: the bulk load ends in Done only if, after the retry pass, no node and no
\* reference is left pending (every submitted entry is in the address space);
\* whenever an entry is still not inserted after the retry, the load ends in
\* Failed with an error raised.
C3_DoneOnlyIfNothingPending ==
    /\ lphase = "done" =>
          /\ remaining_nodes = <<>> /\ remaining_refs = <<>>
          /\ UnresolvedNodes = {} /\ UnresolvedRefs = {}
    /\ (LoadEnded /\ (UnresolvedNodes # {} \/ UnresolvedRefs # {})) =>
          /\ lphase = "failed"
          /\ report.kind # "none"

\* a load that ends in Done after the retry pass resolved a pending node and a
\* pending reference
C3_Witness ==
    /\ lphase = "done"
    /\ postponed_nodes # <<>>
    /\ postponed_refs # <<>>

\* C4: when the load ends in Failed, the report names every node and every
\* reference that is still unresolved, both kinds together.
C4_ReportNamesEveryUnresolved ==
    lphase = "failed" =>
        /\ SeqToSet(report.nodes) = UnresolvedNodes
        /\ SeqToSet(report.refs) = UnresolvedRefs

\* C5: a reference R (A->B) handed in before its target B: when A and B are
\* supplied (and the rest of the load resolves) R is deferred by the first pass,
\* inserted by the retry pass and the load ends in Done; when B is never
\* supplied the load ends in Failed and the report names R.
C5_ForwardReference ==
    LoadEnded =>
        \A r \in early_refs :
            /\ (/\ {r.src, r.tgt} \subseteq SuppliedIds
                /\ UnresolvedNodes = {}
                /\ UnresolvedRefs \subseteq {r})
               => /\ r \in SeqToSet(postponed_refs)
                  /\ r \in refs_in
                  /\ lphase = "done"
            /\ r.tgt \notin SuppliedIds
               => /\ lphase = "failed"
                  /\ r \in SeqToSet(report.refs)

-----------------------------------------------------------------------------
(* Type bootstrap: names                                                   *)
(* A name is a sequence of one-character strings.                          *)

Letters == {"A", "B", "C", "D", "E", "F", "I", "O", "S", "T", "X", "Y", "Z",
            "a", "c", "d", "e", "g", "h", "i", "l", "n", "o", "p", "r", "t", "y"}
AsciiDigits == {"0", "1", "2", "3", "4", "5", "6", "7", "8", "9"}
\* characters outside ASCII, written by their code point: ARABIC-INDIC DIGIT
\* THREE (str.isdigit, matched by \w, not by [0-9]) and LATIN SMALL E WITH ACUTE
UnicodeDigits == {"U+0663"}
UnicodeLetters == {"U+00E9"}
\* the characters \w matches (a str pattern: Unicode letters and digits too)
WordChars == Letters \cup AsciiDigits \cup {"_"} \cup UnicodeDigits \cup UnicodeLetters

\* re.sub(r'\W+', '_', name): every maximal run of non-word characters becomes
\* one underscore (in_run: the previous character was part of such a run)
RECURSIVE sub_nonword(_, _)
sub_nonword(name, in_run) ==
    IF name = <<>> THEN <<>>
    ELSE IF Head(name) \in WordChars
         THEN <<Head(name)>> \o sub_nonword(Tail(name), FALSE)
         ELSE IF in_run THEN sub_nonword(Tail(name), TRUE)
              ELSE <<"_">> \o sub_nonword(Tail(name), TRUE)

\* re.sub(r'^[0-9]+', r'_\g<0>', newname): leading digits get an underscore in front
sub_leading_digits(name) ==
    IF name # <<>> /\ Head(name) \in AsciiDigits THEN <<"_">> \o name ELSE name

clean_name(name) == sub_leading_digits(sub_nonword(name, FALSE))

-----------------------------------------------------------------------------
(* Built-in types *)

NameInt32 == <<"I", "n", "t", "3", "2">>
NameString == <<"S", "t", "r", "i", "n", "g">>
NameByte == <<"B", "y", "t", "e">>
NameEncoding == <<"E", "n", "c", "o", "d", "i", "n", "g">>
NameChar == <<"C", "h", "a", "r">>

\* ua.ObjectIdNames, restricted to the data types the model's fields use
ObjectIdNames == (6 :> NameInt32) @@ (12 :> NameString) @@ (3 :> NameByte)

BuiltinId(i) == [NamespaceIndex |-> 0, Identifier |-> i]
\* server.nodes.base_structure_type, server.nodes.enum_data_type
BaseStructure == BuiltinId(22)
EnumDataType == BuiltinId(29)

\* what the ua module defines before any registration
UaBuiltinNames == {ObjectIdNames[i] : i \in DOMAIN ObjectIdNames}

\* hasattr(ua, name)
hasattr_ua(u, name) == name \in UaBuiltinNames \/ name \in DOMAIN u.classes

-----------------------------------------------------------------------------
(* Code generation: make_structure_code, make_enum_code                    *)
(* A field is [Name, DataType, IsOptional, ValueRank, ArrayDimensions]; a  *)
(* structure definition is [StructureType, Fields, DefaultEncodingId]; an  *)
(* enum definition is [Fields], each field [Name, Value].                  *)

SupportedStructureTypes == {"Structure", "StructureWithOptionalFields"}

\* the type name of a field: lines 161-170; [ok |-> FALSE] is the RuntimeError
field_uatype(u, field) ==
    IF field.DataType.NamespaceIndex = 0 /\ field.DataType.Identifier \in DOMAIN ObjectIdNames
    THEN [ok |-> TRUE, name |-> ObjectIdNames[field.DataType.Identifier]]
    ELSE IF field.DataType \in DOMAIN u.extension_objects_by_datatype
    THEN [ok |-> TRUE, name |-> u.extension_objects_by_datatype[field.DataType]]
    ELSE IF field.DataType \in DOMAIN u.enums_by_datatype
    THEN [ok |-> TRUE, name |-> u.enums_by_datatype[field.DataType]]
    ELSE [ok |-> FALSE, name |-> <<>>]

\* the ListOf prefix: line 159
is_list(field) == field.ValueRank >= 1 \/ field.ArrayDimensions # <<>>

\* does the generated class carry the Encoding byte and ua_switches: lines 142, 153
has_encoding_mask(sdef) == sdef.StructureType = "StructureWithOptionalFields"

\* ua_switches: lines 143-150, the counter running over the optional fields
RECURSIVE ua_switches(_, _)
ua_switches(fields, counter) ==
    IF fields = <<>> THEN <<>>
    ELSE IF Head(fields).IsOptional
         THEN <<[name |-> clean_name(Head(fields).Name), switch |-> NameEncoding,
                 bit |-> counter]>> \o ua_switches(Tail(fields), counter + 1)
         ELSE ua_switches(Tail(fields), counter)

\* lines 171-172: an array of Char is a String
char_as_string(field, uatype) ==
    IF field.ValueRank >= 1 /\ uatype = NameChar THEN NameString ELSE uatype

\* ua_types: lines 152-175
ua_types(u, sdef) ==
    (IF has_encoding_mask(sdef)
     THEN <<[name |-> NameEncoding, list |-> FALSE, uatype |-> NameByte]>>
     ELSE <<>>)
    \o [i \in 1 .. Len(sdef.Fields) |->
          [name |-> clean_name(sdef.Fields[i].Name),
           list |-> is_list(sdef.Fields[i]),
           uatype |-> char_as_string(sdef.Fields[i],
                                     field_uatype(u, sdef.Fields[i]).name)]]

\* get_default_value: lines 95-117
get_default_value(u, uatype) ==
    IF uatype = NameString THEN "None"
    ELSE IF uatype = NameChar THEN "b''"
    ELSE IF uatype \in {NameInt32, NameByte} THEN "0"
    ELSE IF uatype \in DOMAIN u.classes /\ u.classes[uatype].kind = "enum"
    THEN "first enum member"
    ELSE "ua.uatype()"

\* the initialisers of __init__: lines 187-195
init_values(u, sdef) ==
    (IF has_encoding_mask(sdef) THEN <<[name |-> NameEncoding, value |-> "0"]>> ELSE <<>>)
    \o [i \in 1 .. Len(sdef.Fields) |->
          [name |-> clean_name(sdef.Fields[i].Name),
           value |-> IF sdef.Fields[i].ValueRank >= 1 THEN "[]"
                     ELSE get_default_value(u,
                              char_as_string(sdef.Fields[i],
                                             field_uatype(u, sdef.Fields[i]).name))]]

\* make_structure_code, as the class the generated code defines, or the error raised
make_structure_code(u, data_type, struct_name, sdef) ==
    IF sdef.StructureType \notin SupportedStructureTypes
    THEN [error |-> "NotImplementedError"]
    ELSE IF \E i \in DOMAIN sdef.Fields : ~field_uatype(u, sdef.Fields[i]).ok
    THEN [error |-> "RuntimeError"]
    ELSE [error |-> "none",
          class |-> [kind |-> "struct",
                     name |-> struct_name,
                     data_type |-> data_type,
                     ua_switches |-> IF has_encoding_mask(sdef)
                                     THEN ua_switches(sdef.Fields, 0) ELSE <<>>,
                     ua_types |-> ua_types(u, sdef),
                     init |-> init_values(u, sdef)]]

\* the value an enum member gets: line 311
enum_member_value(fields, i) == fields[i].Value

\* make_enum_code: lines 295-314
make_enum_code(name, edef) ==
    [kind |-> "enum",
     name |-> name,
     members |-> [i \in 1 .. Len(edef.Fields) |->
                    [name |-> clean_name(edef.Fields[i].Name),
                     value |-> enum_member_value(edef.Fields, i)]]]

-----------------------------------------------------------------------------
(* The registry (ua.register_extension_object, ua.register_enum): insert if *)
(* absent, else a no-op; a class is known by name and by encoding id.       *)

\* register_extension_object as it would be if a registration always overwrote
register_extension_object_overwrite(u, name, encoding_id, class, datatype) ==
    [u EXCEPT
       !.classes = (name :> class) @@ @,
       !.extension_object_classes = (encoding_id :> name) @@ @,
       !.extension_objects_by_datatype = (datatype :> name) @@ @]

register_extension_object(u, name, encoding_id, class, datatype) ==
    IF name \in DOMAIN u.classes \/ encoding_id \in DOMAIN u.extension_object_classes
    THEN u
    ELSE [u EXCEPT
            !.classes = (name :> class) @@ @,
            !.extension_object_classes = (encoding_id :> name) @@ @,
            !.extension_objects_by_datatype = (datatype :> name) @@ @]

register_enum(u, name, datatype, class) ==
    IF name \in DOMAIN u.classes
    THEN u
    ELSE [u EXCEPT
            !.classes = (name :> class) @@ @,
            !.enums_by_datatype = (datatype :> name) @@ @]

-----------------------------------------------------------------------------
(* Discovery: _read_data_type_definition, _recursive_parse                  *)
(* type_nodes.children[n] is get_children_descriptions(n, HasSubtype), each *)
(* a description [NodeId, BrowseName]; type_nodes.definition[n] is what     *)
(* read_data_type_definition gives: [read |-> "ok" | "BadAttributeIdInvalid"*)
(* | "error", def |-> the definition].                                      *)

NameFilterOperand == <<"F", "i", "l", "t", "e", "r", "O", "p", "e", "r", "a", "n", "d">>

\* _read_data_type_definition: [ok |-> FALSE] is None
read_data_type_definition(u, nodes, desc) ==
    IF desc.BrowseName = NameFilterOperand THEN [ok |-> FALSE]
    ELSE IF hasattr_ua(u, desc.BrowseName) THEN [ok |-> FALSE]
    ELSE IF nodes.definition[desc.NodeId].read # "ok" THEN [ok |-> FALSE]
    ELSE [ok |-> TRUE, def |-> nodes.definition[desc.NodeId].def]

Reversed(s) == [i \in 1 .. Len(s) |-> s[Len(s) + 1 - i]]

\* for field in iter: fields.insert(0, field)
RECURSIVE insert_each_at_front(_, _)
insert_each_at_front(iter, fields) ==
    IF iter = <<>> THEN fields
    ELSE insert_each_at_front(Tail(iter), <<Head(iter)>> \o fields)

\* inherit_fields as it would be if the parent fields were walked in declared order
inherit_fields_unreversed(parent_fields, own_fields) ==
    insert_each_at_front(parent_fields, own_fields)

\* lines 254-255: for field in reversed(parent_sdef.Fields): sdef.Fields.insert(0, field)
inherit_fields(parent_fields, own_fields) ==
    insert_each_at_front(Reversed(parent_fields), own_fields)

\* DataTypeSorter.__init__
DataTypeSorter(data_type, name, desc, sdef) ==
    [data_type |-> data_type, name |-> name, desc |-> desc, sdef |-> sdef,
     encoding_id |-> sdef.DefaultEncodingId,
     deps |-> [i \in 1 .. Len(sdef.Fields) |-> sdef.Fields[i].DataType]]

\* _recursive_parse as it would be if a node without a schema were not left
\* by 'continue': the walk goes on below it, with the parent's schema
RECURSIVE recursive_parse_below_skipped(_, _, _, _, _)
recursive_parse_below_skipped(u, nodes, descs, acc, parent) ==
    IF descs = <<>> THEN acc
    ELSE LET desc == Head(descs)
             r == read_data_type_definition(u, nodes, desc)
             sdef == IF parent.ok
                     THEN [r.def EXCEPT !.Fields = inherit_fields(parent.def.Fields, @)]
                     ELSE r.def
             below == IF r.ok
                      THEN recursive_parse_below_skipped(
                               u, nodes, nodes.children[desc.NodeId],
                               Append(acc, DataTypeSorter(desc.NodeId,
                                                          clean_name(desc.BrowseName),
                                                          desc, sdef)),
                               [ok |-> TRUE, def |-> sdef])
                      ELSE recursive_parse_below_skipped(
                               u, nodes, nodes.children[desc.NodeId], acc, parent)
         IN  recursive_parse_below_skipped(u, nodes, Tail(descs), below, parent)

\* _recursive_parse over the children descs of one node, appending to acc;
\* parent is [ok |-> FALSE] (parent_sdef=None) or [ok |-> TRUE, def |-> parent_sdef]
RECURSIVE recursive_parse(_, _, _, _, _)
recursive_parse(u, nodes, descs, acc, parent) ==
    IF descs = <<>> THEN acc
    ELSE LET desc == Head(descs)
             r == read_data_type_definition(u, nodes, desc)
         IN  IF ~r.ok THEN recursive_parse(u, nodes, Tail(descs), acc, parent)
             ELSE LET sdef == IF parent.ok
                              THEN [r.def EXCEPT
                                      !.Fields = inherit_fields(parent.def.Fields, @)]
                              ELSE r.def
                      dts == DataTypeSorter(desc.NodeId, clean_name(desc.BrowseName),
                                            desc, sdef)
                      below == recursive_parse(u, nodes, nodes.children[desc.NodeId],
                                               Append(acc, dts),
                                               [ok |-> TRUE, def |-> sdef])
                  IN  recursive_parse(u, nodes, Tail(descs), below, parent)

-----------------------------------------------------------------------------
(* dtypes.sort(): CPython's list.sort on a list shorter than 64 entries is  *)
(* count_run (the initial run, reversed when strictly descending) followed  *)
(* by a binary insertion sort, all comparisons through __lt__.              *)

\* DataTypeSorter.__lt__
Lt(self, other) == self.desc.NodeId \in SeqToSet(other.deps)

\* count_run: the index of the last entry of the run starting at l[1]
RECURSIVE count_run(_, _, _)
count_run(l, i, descending) ==
    IF i > Len(l) THEN i - 1
    ELSE IF Lt(l[i], l[i - 1]) = descending THEN count_run(l, i + 1, descending)
    ELSE i - 1

\* binarysort's search for the place of pivot in l[lo .. hi - 1]
RECURSIVE bisect(_, _, _, _)
bisect(l, pivot, lo, hi) ==
    LET p == lo + ((hi - lo) \div 2)
        lo2 == IF Lt(pivot, l[p]) THEN lo ELSE p + 1
        hi2 == IF Lt(pivot, l[p]) THEN p ELSE hi
    IN  IF lo2 < hi2 THEN bisect(l, pivot, lo2, hi2) ELSE lo2

RECURSIVE binarysort(_, _)
binarysort(l, start) ==
    IF start > Len(l) THEN l
    ELSE LET pivot == l[start]
             pos == bisect(l, pivot, 1, start)
             moved == [i \in 1 .. Len(l) |->
                         IF i < pos THEN l[i]
                         ELSE IF i = pos THEN pivot
                         ELSE IF i <= start THEN l[i - 1]
                         ELSE l[i]]
         IN  binarysort(moved, start + 1)

list_sort(l) ==
    IF Len(l) < 2 THEN l
    ELSE LET descending == Lt(l[2], l[1])
             n == count_run(l, 3, descending)
             first == IF descending
                      THEN [i \in 1 .. Len(l) |-> IF i <= n THEN l[n + 1 - i] ELSE l[i]]
                      ELSE l
         IN  binarysort(first, n + 1)

-----------------------------------------------------------------------------
(* load_enums and load_data_type_definitions *)

EmptyUa == [classes |-> <<>>, extension_objects_by_datatype |-> <<>>,
            extension_object_classes |-> <<>>, enums_by_datatype |-> <<>>]

\* load_enums' loop over the children of the enum base type; st is [ua, log]
RECURSIVE load_enums(_, _, _, _)
load_enums(st, nodes, descs, r) ==
    IF descs = <<>> THEN st
    ELSE LET desc == Head(descs)
             name == clean_name(desc.BrowseName)
             edef == read_data_type_definition(st.ua, nodes, desc)
         IN  IF hasattr_ua(st.ua, name) \/ ~edef.ok
             THEN load_enums(st, nodes, Tail(descs), r)
             ELSE LET class == make_enum_code(name, edef.def)
                      u2 == register_enum(st.ua, name, desc.NodeId, class)
                  IN  load_enums([ua |-> u2,
                                  log |-> Append(st.log,
                                     [kind |-> "enum", name |-> name,
                                      encoding_id |-> desc.NodeId,
                                      data_type |-> desc.NodeId, class |-> class,
                                      inserted |-> u2 # st.ua, run |-> r])],
                                 nodes, Tail(descs), r)

\* the bootstrap starts over an address space drawn from S, the registry empty
InitTypes(S) ==
    /\ type_nodes \in S
    /\ ua = EmptyUa
    /\ dtypes = <<>>
    /\ idx = 0
    /\ tpc = "start"
    /\ run = "first"
    /\ first_run = [ended |-> FALSE, ua |-> EmptyUa, tpc |-> "start"]
    /\ reg_log = <<>>

\* load_data_type_definitions, line 261: await load_enums(server)
LoadEnums ==
    /\ tpc = "start"
    /\ LET st == load_enums([ua |-> ua, log |-> reg_log], type_nodes, type_nodes.enums, run)
       IN  /\ ua' = st.ua
           /\ reg_log' = st.log
    /\ tpc' = "enums"
    /\ UNCHANGED <<type_nodes, dtypes, idx, run, first_run>>
    /\ UNCHANGED loadvars

\* lines 262-265: the discovery walk from the structure base type
Parse ==
    /\ tpc = "enums"
    /\ dtypes' = recursive_parse(ua, type_nodes, type_nodes.children[BaseStructure],
                                 <<>>, [ok |-> FALSE])
    /\ tpc' = "parsed"
    /\ UNCHANGED <<type_nodes, ua, idx, run, first_run, reg_log>>
    /\ UNCHANGED loadvars

\* line 266: dtypes.sort()
Sort ==
    /\ tpc = "parsed"
    /\ dtypes' = list_sort(dtypes)
    /\ idx' = 1
    /\ tpc' = IF dtypes = <<>> THEN "done" ELSE "compile"
    /\ UNCHANGED <<type_nodes, ua, run, first_run, reg_log>>
    /\ UNCHANGED loadvars

\* lines 267-272: one turn of the loop over dtypes
Compile ==
    /\ tpc = "compile"
    /\ LET dts == dtypes[idx]
           code == make_structure_code(ua, dts.data_type, dts.name, dts.sdef)
           u2 == register_extension_object(ua, dts.name, dts.encoding_id, code.class,
                                           dts.desc.NodeId)
           last == idx = Len(dtypes)
       IN  IF code.error = "RuntimeError"
           THEN /\ tpc' = "raised"
                /\ UNCHANGED <<ua, idx, reg_log>>
           ELSE IF code.error = "NotImplementedError"
           THEN /\ tpc' = IF last THEN "done" ELSE "compile"
                /\ idx' = idx + 1
                /\ UNCHANGED <<ua, reg_log>>
           ELSE /\ ua' = u2
                /\ reg_log' = Append(reg_log,
                      [kind |-> "struct", name |-> dts.name,
                       encoding_id |-> dts.encoding_id, data_type |-> dts.desc.NodeId,
                       class |-> code.class, inserted |-> u2 # ua, run |-> run])
                /\ tpc' = IF last THEN "done" ELSE "compile"
                /\ idx' = idx + 1
    /\ UNCHANGED <<type_nodes, dtypes, run, first_run>>
    /\ UNCHANGED loadvars

\* the bootstrap is called a second time, the address space unchanged
Rerun ==
    /\ tpc \in {"done", "raised"}
    /\ run = "first"
    /\ run' = "second"
    /\ first_run' = [ended |-> TRUE, ua |-> ua, tpc |-> tpc]
    /\ tpc' = "start"
    /\ dtypes' = <<>>
    /\ idx' = 0
    /\ UNCHANGED <<type_nodes, ua, reg_log>>
    /\ UNCHANGED loadvars

\* one bootstrap
NextOnce == LoadEnums \/ Parse \/ Sort \/ Compile

\* a bootstrap and a second one over the same address space
NextTypes == LoadEnums \/ Parse \/ Sort \/ Compile \/ Rerun

-----------------------------------------------------------------------------
(* Address spaces the bootstrap is run over *)

MaxTypes == 3

TypeIds == 1 .. MaxTypes
Tid(k) == [NamespaceIndex |-> 2, Identifier |-> k]
EncodingId(k) == [NamespaceIndex |-> 3, Identifier |-> k]
DigitOf == <<"1", "2", "3", "4", "5", "6", "7", "8", "9">>
TypeName(k) == <<"T", DigitOf[k]>>
FieldName(k) == <<"X", DigitOf[k]>>

\* a required scalar field, as new_struct_field(name, dtype) makes it
ScalarField(name, dtype, optional) ==
    [Name |-> name, DataType |-> dtype, IsOptional |-> optional,
     ValueRank |-> -1, ArrayDimensions |-> <<>>]

\* new_struct: the structure type follows from the optional flags of the fields
StructureDefinition(fields, encoding_id) ==
    [StructureType |-> IF \E i \in DOMAIN fields : fields[i].IsOptional
                       THEN "StructureWithOptionalFields" ELSE "Structure",
     Fields |-> fields,
     DefaultEncodingId |-> encoding_id]

\* the ids of a set, in ascending order
RECURSIVE Ascending(_)
Ascending(ids) ==
    IF ids = {} THEN <<>>
    ELSE LET m == CHOOSE x \in ids : \A y \in ids : x <= y
         IN  <<m>> \o Ascending(ids \ {m})

Desc(k, name) == [NodeId |-> Tid(k), BrowseName |-> name]

\* Order: MaxTypes root structures discovered in the order 1, 2, ..., every
\* dependency graph between them (type k has one field per type it depends on)
OrderSpaces ==
    {[enums |-> <<>>,
      children |-> [n \in {BaseStructure} \cup {Tid(k) : k \in TypeIds} |->
                      IF n = BaseStructure
                      THEN [k \in TypeIds |-> Desc(k, TypeName(k))]
                      ELSE <<>>],
      definition |-> [n \in {Tid(k) : k \in TypeIds} |->
                        [read |-> "ok",
                         def |-> StructureDefinition(
                             [i \in 1 .. Cardinality(deps[n.Identifier]) |->
                                ScalarField(FieldName(i),
                                            Tid(Ascending(deps[n.Identifier])[i]), FALSE)],
                             EncodingId(n.Identifier))]]]
     : deps \in [TypeIds -> SUBSET TypeIds]}

InitOrder == LoadNew /\ InitTypes(OrderSpaces)

OrderSpec == InitOrder /\ [][NextOnce]_vars

\* Schema: MaxTypes structures in a subtype hierarchy (the parent of type k is
\* the base type, written 0, or a type of smaller id), each declaring no field,
\* a required Int32 X, an optional String Y, or both in either order
FieldX == ScalarField(<<"X">>, BuiltinId(6), FALSE)
FieldY == ScalarField(<<"Y">>, BuiltinId(12), TRUE)

OwnFieldLists == {<<>>, <<FieldX>>, <<FieldY>>, <<FieldX, FieldY>>, <<FieldY, FieldX>>}

ParentNode(p) == IF p = 0 THEN BaseStructure ELSE Tid(p)

SchemaSpaces ==
    {[enums |-> <<>>,
      children |-> [n \in {BaseStructure} \cup {Tid(k) : k \in TypeIds} |->
                      LET below == Ascending({k \in TypeIds : ParentNode(parent[k]) = n})
                      IN  [i \in 1 .. Len(below) |-> Desc(below[i], TypeName(below[i]))]],
      definition |-> [n \in {Tid(k) : k \in TypeIds} |->
                        [read |-> "ok",
                         def |-> StructureDefinition(own[n.Identifier],
                                                     EncodingId(n.Identifier))]]]
     : parent \in {f \in [TypeIds -> 0 .. MaxTypes] : \A k \in TypeIds : f[k] < k},
       own \in [TypeIds -> OwnFieldLists]}

InitSchema == LoadNew /\ InitTypes(SchemaSpaces)

SchemaSpec == InitSchema /\ [][NextOnce]_vars

\* Registry: MaxRegTypes structures in a subtype hierarchy and one enumeration;
\* browse names that collide as they are (the same name in two namespaces) or
\* once sanitized, encoding ids that collide, a field of the first structure's type
MaxRegTypes == 2

RegTypeIds == 1 .. MaxRegTypes
RegNames == {<<"A">>, <<"A", "-">>, <<"A", "_">>}
RegEncodings == {EncodingId(1), EncodingId(2)}
RegFieldLists == {<<>>, <<ScalarField(<<"X">>, Tid(1), FALSE)>>}
EnumId(k) == [NamespaceIndex |-> 4, Identifier |-> k]

\* new_enum: the fields carry their position as value
new_enum(values) ==
    [Fields |-> [i \in 1 .. Len(values) |-> [Name |-> values[i], Value |-> i - 1]]]

RegistrySpaces ==
    {[enums |-> <<[NodeId |-> EnumId(1), BrowseName |-> ename]>>,
      children |-> [n \in {BaseStructure} \cup {Tid(k) : k \in RegTypeIds} |->
                      LET below == Ascending({k \in RegTypeIds : ParentNode(parent[k]) = n})
                      IN  [i \in 1 .. Len(below) |-> Desc(below[i], name[below[i]])]],
      definition |-> [n \in {EnumId(1)} \cup {Tid(k) : k \in RegTypeIds} |->
                        IF n = EnumId(1)
                        THEN [read |-> "ok", def |-> new_enum(<<<<"R">>, <<"G">>>>)]
                        ELSE [read |-> "ok",
                              def |-> StructureDefinition(own[n.Identifier],
                                                          enc[n.Identifier])]]]
     : parent \in {f \in [RegTypeIds -> 0 .. MaxRegTypes] : \A k \in RegTypeIds : f[k] < k},
       name \in [RegTypeIds -> RegNames],
       enc \in [RegTypeIds -> RegEncodings],
       own \in [RegTypeIds -> RegFieldLists],
       ename \in {<<"A">>, <<"A", "-">>}}

InitRegistry == LoadNew /\ InitTypes(RegistrySpaces)

RegistrySpec == InitRegistry /\ [][NextTypes]_vars

\* Enums: MaxEnums enumerations of one or two fields carrying any value up to
\* MaxEnumValue, and one structure with a field of the first enumeration's type
MaxEnums == 2
MaxEnumValue == 2

EnumIds == 1 .. MaxEnums
EnumName(k) == <<"E", DigitOf[k]>>
EnumFieldNames == <<<<"R">>, <<"G">>>>
EnumValueLists == UNION {[1 .. k -> 0 .. MaxEnumValue] : k \in 1 .. Len(EnumFieldNames)}

EnumSpaces ==
    {[enums |-> [k \in EnumIds |-> [NodeId |-> EnumId(k), BrowseName |-> EnumName(k)]],
      children |-> [n \in {BaseStructure, Tid(1)} |->
                      IF n = BaseStructure THEN <<Desc(1, TypeName(1))>> ELSE <<>>],
      definition |-> [n \in {Tid(1)} \cup {EnumId(k) : k \in EnumIds} |->
                        IF n = Tid(1)
                        THEN [read |-> "ok",
                              def |-> StructureDefinition(
                                  <<ScalarField(<<"X">>, EnumId(1), FALSE)>>,
                                  EncodingId(1))]
                        ELSE [read |-> "ok",
                              def |-> [Fields |->
                                  [i \in 1 .. Len(values[n.Identifier]) |->
                                     [Name |-> EnumFieldNames[i],
                                      Value |-> values[n.Identifier][i]]]]]]]
     : values \in [EnumIds -> EnumValueLists]}

InitEnums == LoadNew /\ InitTypes(EnumSpaces)

EnumSpec == InitEnums /\ [][NextOnce]_vars

-----------------------------------------------------------------------------
(* Claims about the compile order *)

\* dtypes has been sorted: the compile loop runs or has ended
Sorted == tpc \in {"compile", "done", "raised"}
BootstrapEnded == tpc \in {"done", "raised"}

Discovered(l) == {l[i].desc.NodeId : i \in DOMAIN l}

\* the positions of l that the type at position i depends on
DepsOf(l, i) == {j \in DOMAIN l : l[j].desc.NodeId \in SeqToSet(l[i].deps)}

\* the positions reached from the set from by following dependencies, steps deep
RECURSIVE DepsClosure(_, _, _)
DepsClosure(l, from, steps) ==
    IF steps = 0 THEN from
    ELSE DepsClosure(l, from \cup UNION {DepsOf(l, j) : j \in from}, steps - 1)

\* some discovered type depends on itself, directly or transitively
Cyclic(l) == \E i \in DOMAIN l : i \in DepsClosure(l, DepsOf(l, i), Len(l))

\* the order of l puts every type after the types it depends on
DependenciesFirst(l) == \A i \in DOMAIN l : \A j \in DepsOf(l, i) : j < i

\* C1: for an acyclic set of discovered types, whatever the discovery order, the
\* list after dtypes.sort() has every type strictly after each custom type it
\* depends on.
C1_SortIsTopological == (Sorted /\ ~Cyclic(dtypes)) => DependenciesFirst(dtypes)

\* C2: when a discovered type depends on itself (directly or transitively) the
\* bootstrap fails, and no structure of the set has been compiled and registered.
C2_CycleRejected ==
    (BootstrapEnded /\ Cyclic(dtypes)) =>
        /\ tpc = "raised"
        /\ \A i \in DOMAIN reg_log : reg_log[i].data_type \notin Discovered(dtypes)

-----------------------------------------------------------------------------
(* Claims about the flattened schema and the compiled layout *)

\* the node whose children include n, and n's own declared definition
ParentOf(n) == CHOOSE p \in DOMAIN type_nodes.children :
                   \E i \in DOMAIN type_nodes.children[p] :
                       type_nodes.children[p][i].NodeId = n
OwnFields(n) == type_nodes.definition[n].def.Fields

\* the parent's flattened fields in the parent's order, then the own fields
RECURSIVE FlattenedFields(_)
FlattenedFields(n) ==
    IF ParentOf(n) = BaseStructure THEN OwnFields(n)
    ELSE FlattenedFields(ParentOf(n)) \o OwnFields(n)

\* C8: the field list of every discovered type is its parent's flattened field
\* list, in the parent's order, followed by its own declared fields in declared
\* order, nothing dropped, renamed or deduplicated; a root type keeps its own.
C8_InheritedFieldsFirst ==
    \A i \in DOMAIN dtypes :
        dtypes[i].sdef.Fields = FlattenedFields(dtypes[i].desc.NodeId)

\* a type two levels below a root type: it inherits two different fields and
\* declares one of the same name as an inherited one
C8_Witness ==
    /\ tpc = "done"
    /\ \E i \in DOMAIN dtypes :
         LET n == dtypes[i].desc.NodeId
             f == dtypes[i].sdef.Fields
         IN  /\ ParentOf(n) # BaseStructure
             /\ ParentOf(ParentOf(n)) # BaseStructure
             /\ Len(f) = 3
             /\ f[1] # f[2]
             /\ f[3].Name \in {f[1].Name, f[2].Name}

\* the optional fields of a field list, in order
RECURSIVE OptionalFields(_)
OptionalFields(fields) ==
    IF fields = <<>> THEN <<>>
    ELSE (IF Head(fields).IsOptional THEN <<Head(fields)>> ELSE <<>>)
         \o OptionalFields(Tail(fields))

EncodingEntry == [name |-> NameEncoding, list |-> FALSE, uatype |-> NameByte]

\* C10: a compiled structure whose flattened field list has an optional field
\* starts its layout with ('Encoding', 'Byte') and maps its i-th optional field
\* to bit i; a structure without optional field has no bitmask entry.
C10_BitmaskForOptionalFields ==
    \A i \in DOMAIN reg_log :
        reg_log[i].kind = "struct" =>
            LET c == reg_log[i].class
                opt == OptionalFields(FlattenedFields(reg_log[i].data_type))
            IN  IF opt # <<>>
                THEN /\ c.ua_types # <<>>
                     /\ c.ua_types[1] = EncodingEntry
                     /\ c.ua_switches =
                          [k \in 1 .. Len(opt) |->
                             [name |-> clean_name(opt[k].Name),
                              switch |-> NameEncoding, bit |-> k - 1]]
                ELSE /\ \A k \in DOMAIN c.ua_types : c.ua_types[k] # EncodingEntry
                     /\ c.ua_switches = <<>>

-----------------------------------------------------------------------------
(* Claims about the registry *)

\* the calls that put a class into the registry
Inserted == {i \in DOMAIN reg_log : reg_log[i].inserted}

\* C6: a runtime type is registered at most once per name and at most once per
\* encoding id; when two discovered nodes collide on the sanitized name or on
\* the encoding id the later one is skipped and the earlier registration stays.
C6_RegisteredOnce ==
    /\ \A i, j \in Inserted :
         i < j => /\ reg_log[i].name # reg_log[j].name
                  /\ (reg_log[i].kind = "struct" /\ reg_log[j].kind = "struct")
                        => reg_log[i].encoding_id # reg_log[j].encoding_id
    /\ \A i \in Inserted :
         /\ reg_log[i].name \in DOMAIN ua.classes
         /\ ua.classes[reg_log[i].name] = reg_log[i].class
         /\ reg_log[i].kind = "struct" =>
              /\ reg_log[i].encoding_id \in DOMAIN ua.extension_object_classes
              /\ ua.extension_object_classes[reg_log[i].encoding_id] = reg_log[i].name

\* two structures of one discovery walk with the same name: the first is
\* registered, the second skipped
C6_Witness ==
    \E i, j \in DOMAIN reg_log :
        /\ i < j
        /\ reg_log[i].run = "first" /\ reg_log[j].run = "first"
        /\ reg_log[i].kind = "struct" /\ reg_log[j].kind = "struct"
        /\ reg_log[i].name = reg_log[j].name
        /\ reg_log[i].data_type # reg_log[j].data_type
        /\ reg_log[i].inserted /\ ~reg_log[j].inserted

\* C7: a second bootstrap over the unchanged address space leaves the registry
\* as the first one left it, and raises nothing the first one did not raise.
C7_SecondRunChangesNothing ==
    (run = "second" /\ BootstrapEnded) =>
        /\ ua = first_run.ua
        /\ tpc = "raised" => first_run.tpc = "raised"

\* the second bootstrap ended normally after registering again a (name,
\* encoding id) pair that the first one registered
C7_Witness ==
    /\ run = "second"
    /\ tpc = "done"
    /\ first_run.tpc = "done"
    /\ \E i, j \in DOMAIN reg_log :
         /\ reg_log[i].run = "first" /\ reg_log[i].inserted
         /\ reg_log[j].run = "second"
         /\ reg_log[j].name = reg_log[i].name
         /\ reg_log[j].encoding_id = reg_log[i].encoding_id

-----------------------------------------------------------------------------
(* Claims about enumerations *)

\* C9: the value registered for the i-th declared field (0-indexed) of an
\* enumeration is i, whatever value the source EnumField carries.
C9_ValueIsPosition ==
    \A e \in Inserted :
        reg_log[e].kind = "enum" =>
            \A i \in DOMAIN reg_log[e].class.members :
                reg_log[e].class.members[i].value = i - 1

-----------------------------------------------------------------------------
(* Names: one custom structure whose browse name is any short string over  *)
(* letters, digits, underscore, punctuation and non-ASCII characters.      *)

MaxNameLen == 3

NameChars == {"a", "1", "_", "-", " ", "U+0663", "U+00E9"}
RECURSIVE NamesUpTo(_)
NamesUpTo(n) ==
    IF n = 0 THEN {<<>>}
    ELSE NamesUpTo(n - 1) \cup
         {Append(w, c) : w \in {v \in NamesUpTo(n - 1) : Len(v) = n - 1}, c \in NameChars}

NameSpaces ==
    {[children |-> (BaseStructure :> <<Desc(1, name)>>) @@ (Tid(1) :> <<>>),
      definition |-> (Tid(1) :> [read |-> "ok",
                                 def |-> StructureDefinition(<<>>, EncodingId(1))]),
      enums |-> <<>>] : name \in NamesUpTo(MaxNameLen)}

InitNames == LoadNew /\ InitTypes(NameSpaces)
NameSpec == InitNames /\ [][NextOnce]_vars

\* what str.isdigit accepts
Digits == AsciiDigits \cup UnicodeDigits

\* C11: for every name n, clean_name(clean_name(n)) = clean_name(n), and
\* clean_name(n) never starts with a digit and contains only word characters
\* and underscore (n the browse name of a discovered type, clean_name(n) the
\* name of its descriptor).
C11_CleanNameIdempotentAndSafe ==
    \A i \in DOMAIN dtypes :
        LET cleaned == dtypes[i].name
        IN  /\ cleaned = clean_name(dtypes[i].desc.BrowseName)
            /\ clean_name(cleaned) = cleaned
            /\ cleaned # <<>> => Head(cleaned) \notin Digits
            /\ \A k \in DOMAIN cleaned : cleaned[k] \in WordChars

-----------------------------------------------------------------------------
(* Claims about a failing bootstrap *)

\* C12: when the bootstrap aborts with a fatal failure, no type of this
\* bootstrap run remains registered: the registry holds nothing the run put in.
C12_AbortLeavesNoRegistration ==
    tpc = "raised" =>
        /\ \A i \in DOMAIN reg_log : ~(reg_log[i].run = run /\ reg_log[i].inserted)
        /\ run = "first" => ua = EmptyUa

\* every field data type of a discovered type is built in or a discovered
\* custom structure or a registered enum
FieldTypesKnown(l) ==
    \A i \in DOMAIN l : \A k \in DOMAIN l[i].deps :
        \/ l[i].deps[k].NamespaceIndex = 0 /\ l[i].deps[k].Identifier \in DOMAIN ObjectIdNames
        \/ l[i].deps[k] \in Discovered(l)
        \/ l[i].deps[k] \in DOMAIN ua.enums_by_datatype

KindsSupported(l) == \A i \in DOMAIN l : l[i].sdef.StructureType \in SupportedStructureTypes

WellFormed(l) == ~Cyclic(l) /\ FieldTypesKnown(l) /\ KindsSupported(l)

\* C16: for well-formed input, when a type is compiled every custom type it
\* depends on is already registered, and the bootstrap never raises the
\* unresolved-field-type failure, whatever the discovery order.
C16_UnknownDatatypeUnreachable ==
    (Sorted /\ WellFormed(dtypes)) =>
        /\ tpc # "raised"
        /\ tpc = "compile" =>
              \A k \in DOMAIN dtypes[idx].deps :
                  dtypes[idx].deps[k] \in Discovered(dtypes)
                     => dtypes[idx].deps[k] \in DOMAIN ua.extension_objects_by_datatype

-----------------------------------------------------------------------------
(* Kinds: MaxTypes root structures, each of a supported kind or a Union,   *)
(* each with no field or one field whose data type is one of the types.    *)

StructureKinds == {"Structure", "Union"}

\* a StructureDefinition as the server holds it, the kind given
StructureDefinitionOfKind(kind, fields, encoding_id) ==
    [StructureType |-> kind, Fields |-> fields, DefaultEncodingId |-> encoding_id]

KindSpaces ==
    {[enums |-> <<>>,
      children |-> [n \in {BaseStructure} \cup {Tid(k) : k \in TypeIds} |->
                      IF n = BaseStructure
                      THEN [k \in TypeIds |-> Desc(k, TypeName(k))]
                      ELSE <<>>],
      definition |-> [n \in {Tid(k) : k \in TypeIds} |->
                        [read |-> "ok",
                         def |-> StructureDefinitionOfKind(
                             kind[n.Identifier],
                             IF dep[n.Identifier] = 0 THEN <<>>
                             ELSE <<ScalarField(FieldName(1), Tid(dep[n.Identifier]), FALSE)>>,
                             EncodingId(n.Identifier))]]]
     : kind \in [TypeIds -> StructureKinds], dep \in [TypeIds -> {0} \cup TypeIds]}

InitKinds == LoadNew /\ InitTypes(KindSpaces)
KindSpec == InitKinds /\ [][NextOnce]_vars

Unsupported(l) == {i \in DOMAIN l : l[i].sdef.StructureType \notin SupportedStructureTypes}

\* C13: a discovered type of an unsupported structure kind is skipped and
\* nothing else: the bootstrap does not fail and every other discovered type,
\* those after it in the order and those with a field of the skipped type
\* included, is processed (acyclic input, compiled in dependency order).
C13_OnlyUnsupportedSkipped ==
    (/\ BootstrapEnded
     /\ Unsupported(dtypes) # {}
     /\ ~Cyclic(dtypes)
     /\ DependenciesFirst(dtypes)) =>
        /\ tpc = "done"
        /\ \A i \in DOMAIN dtypes \ Unsupported(dtypes) :
              dtypes[i].desc.NodeId \in DOMAIN ua.extension_objects_by_datatype

-----------------------------------------------------------------------------
(* Arrays: a structure T1 (named T1 or Char) and a structure T2 with one or *)
(* two fields of every value rank and array dimension list.                *)

\* ua.ValueRank: Scalar, OneOrMoreDimensions, OneDimension
ValueRanks == {-1, 0, 1}
ArrayDimensionLists == {<<>>, <<1>>}
ArrayFieldTypes == {BuiltinId(6), BuiltinId(12), Tid(1)}

\* new_struct_field(name, dtype, array=True)
ArrayField(name, dtype) ==
    [Name |-> name, DataType |-> dtype, IsOptional |-> FALSE,
     ValueRank |-> 0, ArrayDimensions |-> <<1>>]

ArrayFields(name) ==
    {[Name |-> name, DataType |-> t, IsOptional |-> FALSE,
      ValueRank |-> vr, ArrayDimensions |-> ad]
     : t \in ArrayFieldTypes, vr \in ValueRanks, ad \in ArrayDimensionLists}

ArrayFieldLists ==
    {<<f>> : f \in ArrayFields(FieldName(1))}
    \cup {<<ArrayField(FieldName(1), t), g>> :
            t \in ArrayFieldTypes, g \in ArrayFields(FieldName(2))}

ArraySpaces ==
    {[enums |-> <<>>,
      children |-> (BaseStructure :> <<Desc(1, name), Desc(2, TypeName(2))>>)
                   @@ (Tid(1) :> <<>>) @@ (Tid(2) :> <<>>),
      definition |-> (Tid(1) :> [read |-> "ok",
                                 def |-> StructureDefinition(<<>>, EncodingId(1))])
                     @@ (Tid(2) :> [read |-> "ok",
                                    def |-> StructureDefinition(fields, EncodingId(2))])]
     : name \in {TypeName(1), NameChar}, fields \in ArrayFieldLists}

InitArrays == LoadNew /\ InitTypes(ArraySpaces)
ArraySpec == InitArrays /\ [][NextOnce]_vars

\* C17: in every compiled structure a field whose type tag carries the ListOf
\* wrapper has the empty sequence as default initializer; no field has a ListOf
\* tag together with a scalar default.
C17_ListFieldsDefaultEmpty ==
    \A e \in Inserted :
        reg_log[e].kind = "struct" =>
            \A i \in DOMAIN reg_log[e].class.ua_types :
                reg_log[e].class.ua_types[i].list =>
                    /\ reg_log[e].class.init[i].name = reg_log[e].class.ua_types[i].name
                    /\ reg_log[e].class.init[i].value = "[]"

-----------------------------------------------------------------------------
(* Claims about the passes of the bulk load *)

AttemptsOfNode(n) == attempts_n[n.id]
PendingNodes == SeqToSet(postponed_nodes)
PendingRefs == SeqToSet(postponed_refs)

\* C14: the retry pass re-attempts exactly the pending set: when the load has
\* ended (Done or Failed) every pending node and every pending reference was
\* re-attempted exactly once, and no entry inserted in the first pass was.
C14_RetryExactlyPending ==
    LoadEnded =>
        /\ \A n \in submitted_nodes :
              AttemptsOfNode(n) = IF n \in PendingNodes THEN 2 ELSE 1
        /\ \A r \in submitted_refs :
              attempts_r[r] = IF r \in PendingRefs THEN 2 ELSE 1

\* C15: in the inserting pass a failed insertion never ends the pass: every
\* entry handed in so far was attempted once, those that failed are pending
\* (once each), those that succeeded are inserted, and the pass goes on.
C15_FailuresArePostponed ==
    lphase = "body" =>
        /\ \A n \in submitted_nodes : AttemptsOfNode(n) = 1
        /\ \A r \in submitted_refs : attempts_r[r] = 1
        /\ PendingNodes = UnresolvedNodes
        /\ PendingRefs = UnresolvedRefs
        /\ Len(postponed_nodes) = Cardinality(PendingNodes)
        /\ Len(postponed_refs) = Cardinality(PendingRefs)

\* the inserting pass goes on after a node and a reference failed: one node
\* and one reference are pending, another node and another reference inserted
C15_Witness ==
    /\ lphase = "body"
    /\ postponed_nodes # <<>>
    /\ postponed_refs # <<>>
    /\ aspace # {}
    /\ refs_in # {}

\* C18: the retry pass re-attempts the pending nodes first, and the pending
\* references only when no node remained: with a node still missing the load
\* fails at once and no pending reference is re-attempted or inserted; with no
\* node missing every pending reference is re-attempted against the address
\* space that holds the retried nodes.
C18_NodesBeforeRefs ==
    LoadEnded =>
        /\ \A n \in PendingNodes : AttemptsOfNode(n) = 2
        /\ remaining_nodes # <<>> =>
              /\ lphase = "failed"
              /\ report.kind = "remaining nodes"
              /\ \A r \in PendingRefs : attempts_r[r] = 1 /\ r \notin refs_in
        /\ remaining_nodes = <<>> =>
              \A r \in PendingRefs :
                  /\ attempts_r[r] = 2
                  /\ RefInsertable(aspace, r) => r \in refs_in

\* a load that failed on a remaining node while a reference was pending
C18_Witness ==
    /\ lphase = "failed"
    /\ remaining_nodes # <<>>
    /\ postponed_refs # <<>>

\* C19: when the body raises there is no retry pass: nothing pending is
\* re-attempted or inserted, the pending sets stay as the inserting pass left
\* them, no 'remaining' error is raised and the body's exception propagates.
C19_BodyExceptionSkipsRetry ==
    lphase = "aborted" =>
        /\ report.kind = "body"
        /\ remaining_nodes = <<>> /\ remaining_refs = <<>>
        /\ \A n \in submitted_nodes : AttemptsOfNode(n) = 1
        /\ \A r \in submitted_refs : attempts_r[r] = 1
        /\ PendingNodes = UnresolvedNodes
        /\ PendingRefs = UnresolvedRefs

\* the body raised while a node and a reference were pending that a retry
\* would have inserted
C19_Witness ==
    /\ lphase = "aborted"
    /\ \E n \in PendingNodes : NodeInsertable(aspace, n)
    /\ \E r \in PendingRefs : RefInsertable(aspace, r)

-----------------------------------------------------------------------------
(* Skips: a subtype tree of MaxTypes structures without fields; each node  *)
(* has its own name, the excluded name or a built-in name, and its schema  *)
(* read succeeds, finds no attribute or fails.                             *)

ReadOutcomes == {"ok", "BadAttributeIdInvalid", "error"}

\* a node as discovery meets it: browse name and outcome of the schema read
SkipCases(k) ==
    {[name |-> TypeName(k), read |-> o] : o \in ReadOutcomes}
    \cup {[name |-> NameFilterOperand, read |-> "ok"], [name |-> NameString, read |-> "ok"]}

SkipSpaces ==
    {[enums |-> <<>>,
      children |-> [n \in {BaseStructure} \cup {Tid(k) : k \in TypeIds} |->
                      LET below == Ascending({k \in TypeIds : ParentNode(parent[k]) = n})
                      IN  [i \in 1 .. Len(below) |-> Desc(below[i], case[below[i]].name)]],
      definition |-> [n \in {Tid(k) : k \in TypeIds} |->
                        [read |-> case[n.Identifier].read,
                         def |-> StructureDefinition(<<>>, EncodingId(n.Identifier))]]]
     : parent \in {f \in [TypeIds -> 0 .. MaxTypes] : \A k \in TypeIds : f[k] < k},
       case \in {f \in [TypeIds -> UNION {SkipCases(k) : k \in TypeIds}] :
                   \A k \in TypeIds : f[k] \in SkipCases(k)}}

InitSkips == LoadNew /\ InitTypes(SkipSpaces)
SkipSpec == InitSkips /\ [][NextOnce]_vars

Parsed == tpc \in {"parsed", "compile", "done", "raised"}

\* the browse name under which the address space lists node n
BrowseNameOf(n) ==
    LET p == ParentOf(n)
        i == CHOOSE j \in DOMAIN type_nodes.children[p] :
                 type_nodes.children[p][j].NodeId = n
    IN  type_nodes.children[p][i].BrowseName

\* node n yields no schema: excluded name, built-in name, no attribute, read error
YieldsNoSchema(n) ==
    \/ BrowseNameOf(n) = NameFilterOperand
    \/ BrowseNameOf(n) \in UaBuiltinNames
    \/ type_nodes.definition[n].read # "ok"

\* n and every node between n and the root of the walk yield a schema
RECURSIVE ReachedByWalk(_)
ReachedByWalk(n) ==
    /\ ~YieldsNoSchema(n)
    /\ ParentOf(n) # BaseStructure => ReachedByWalk(ParentOf(n))

CustomNodes == DOMAIN type_nodes.definition

\* C20: a type gets a descriptor exactly when it and every ancestor up to the
\* root of the walk yielded a schema: nothing below a skipped node is discovered
\* or registered, and the siblings of a skipped node are still visited.
C20_NoDescentBelowSkipped ==
    Parsed =>
        /\ Discovered(dtypes) = {n \in CustomNodes : ReachedByWalk(n)}
        /\ Len(dtypes) = Cardinality(Discovered(dtypes))
        /\ \A e \in DOMAIN reg_log : reg_log[e].data_type \in Discovered(dtypes)

\* the walk skipped a node that has a readable subtype, left the subtype out
\* and went on to discover and register a later sibling of the skipped node
C20_Witness ==
    /\ tpc = "done"
    /\ \E n, c, sib \in CustomNodes :
         /\ YieldsNoSchema(n)
         /\ ParentOf(c) = n /\ ~YieldsNoSchema(c)
         /\ c \notin Discovered(dtypes)
         /\ ParentOf(sib) = ParentOf(n) /\ sib.Identifier > n.Identifier
         /\ sib \in Discovered(dtypes)
         /\ sib \in DOMAIN ua.extension_objects_by_datatype

====
